---- MODULE Spec2Model ----
(***************************************************************************)
(* rhttp: route patterns, route matching, route registration and the       *)
(* dispatch of a request through middleware hooks and the handler adapter. *)
(* Strings are sequences of one-character strings.                         *)
(***************************************************************************)
EXTENDS Integers, Sequences, FiniteSets, TLC

VARIABLES
    pattern,          \* pure runs: the pattern given to Route::new
    path,             \* pure runs: the path given to should_fire_on_path
    fired,            \* pure runs: result of should_fire_on_path
    parsed,           \* pure runs: result of parse_param_segments
    overflow_checks,  \* build profile: TRUE = debug (overflow panics)
    app,              \* which application is built: "Router" or "Server"
    state,            \* the value the Router was built with (Arc<S>)
    phase,            \* "build", "serve" or "crashed" (startup panic)
    routes,           \* HashMap<Method, Vec<Route>>: a function on the buckets
    middlewares,      \* the global middleware list of the application
    registered,       \* number of routes registered directly so far
    group_calls,      \* number of Router::groups calls made so far
    merged,           \* the vectors given to Router::groups so far
    req,              \* the request being served and its progress
    call,             \* adapter runs: the handler called and what came of it
    returned,         \* responder runs: the value a handler returned
    rendered,         \* responder runs: what respond_to made of it
    threads,          \* concurrent runs: the request of each serving thread
    listening         \* concurrent runs: the accept loop is still running

serveVars == <<threads, listening>>
pureVars == <<pattern, path, fired, parsed, returned, rendered, serveVars>>
appVars == <<overflow_checks, app, state, phase, routes, middlewares, registered,
            group_calls, merged, req, serveVars>>
vars == <<pattern, path, fired, parsed, overflow_checks, app, state, phase, routes,
          middlewares, registered, group_calls, merged, req, call, returned,
          rendered, threads, listening>>

\* ---------------------------------------------------------------- bounds
MaxPatLen == 5
MaxPathLen == 5
\* longest pattern of a route in the adapter runs
MaxRouteLen == 6
\* calls of get / post / groups in one builder chain
MaxBuildCalls == 2
\* anyhow::Result layers around a value a handler returns
MaxNesting == 2
\* middlewares registered on one Server
MaxMiddlewares == 2
\* serving threads running at the same time
MaxThreads == 2

\* characters a registered pattern is drawn from
PatChars == {"/", "<", ">", "a"}
\* characters a request path is drawn from
PathChars == {"/", "a", "b"}

\* usize::MAX, the value 0usize - 1 wraps to when overflow checks are off.
\* It stands for 2^64 - 1; only its being larger than every segment index
\* of a bounded path matters here.
USIZE_MAX == 2147483647

Strings(chars, n) == UNION {[1..k -> chars] : k \in 0..n}

\* ------------------------------------------------------- str::split('/')
RECURSIVE SplitFrom(_, _, _)
SplitFrom(s, i, cur) ==
    IF i > Len(s) THEN <<cur>>
    ELSE IF s[i] = "/" THEN <<cur>> \o SplitFrom(s, i + 1, <<>>)
    ELSE SplitFrom(s, i + 1, Append(cur, s[i]))

split(s) == SplitFrom(s, 1, <<>>)

starts_with(r, c) == Len(r) > 0 /\ r[1] = c
ends_with(r, c) == Len(r) > 0 /\ r[Len(r)] = c

\* the test of route.rs:297 on a pattern segment
IsPlaceholderSegment(r) == starts_with(r, "<") /\ ends_with(r, ">")

\* ------------------------------------------- Route::should_fire_on_path
\* The loop of route.rs:290-300 followed by the check of route.rs:302.
RECURSIVE FireWalk(_, _)
FireWalk(split_path, split_route) ==
    IF split_path = <<>>
    THEN split_route = <<>>
    ELSE IF split_route = <<>> THEN FALSE
    ELSE IF Head(split_path) # Head(split_route)
            /\ ~IsPlaceholderSegment(Head(split_route))
         THEN FALSE
    ELSE FireWalk(Tail(split_path), Tail(split_route))

\* mutant: the trailing check of route.rs:302 is forgotten
RECURSIVE FireWalkNoTail(_, _)
FireWalkNoTail(split_path, split_route) ==
    IF split_path = <<>>
    THEN TRUE
    ELSE IF split_route = <<>> THEN FALSE
    ELSE IF Head(split_path) # Head(split_route)
            /\ ~IsPlaceholderSegment(Head(split_route))
         THEN FALSE
    ELSE FireWalkNoTail(Tail(split_path), Tail(split_route))

should_fire_on_path_m1(origin, p) == FireWalkNoTail(split(p), split(origin))

should_fire_on_path(origin, p) == FireWalk(split(p), split(origin))

\* ------------------------------------------------- parse_param_segments
\* One iteration of the loop of route.rs:352-373.  st is the record of the
\* locals; checks is the build profile (debug builds panic on
\* `slash_counter - 1` when slash_counter = 0, release builds wrap).
ParseInit == [param_segments |-> <<>>, beginning_found |-> FALSE,
              slash_counter |-> 0, found |-> 0, panicked |-> FALSE]

ParseStep(st, c, checks) ==
    IF st.panicked THEN st
    ELSE IF c = "/" THEN [st EXCEPT !.slash_counter = @ + 1]
    ELSE IF c = "<" THEN [st EXCEPT !.beginning_found = TRUE]
    ELSE IF c = ">" THEN
        IF st.slash_counter = 0 /\ checks
        THEN [st EXCEPT !.panicked = TRUE]
        ELSE [st EXCEPT !.beginning_found = FALSE,
                        !.param_segments =
                            Append(@, IF st.slash_counter = 0 THEN USIZE_MAX
                                      ELSE st.slash_counter - 1),
                        !.found = @ + 1]
    ELSE st

RECURSIVE ParseLoop(_, _, _, _)
ParseLoop(value, i, st, checks) ==
    IF i > Len(value) THEN st
    ELSE ParseLoop(value, i + 1, ParseStep(st, value[i], checks),
                   checks)

\* The result: status "ok" with the map (ordinal k is held at index k + 1 of
\* the sequence), "err" for the bail! of route.rs:376, "panic" for the
\* arithmetic overflow panic of route.rs:362.
parse_param_segments(value, checks) ==
    LET st == ParseLoop(value, 1, ParseInit, checks)
    IN  IF st.panicked THEN [status |-> "panic", map |-> <<>>]
        ELSE IF st.beginning_found THEN [status |-> "err", map |-> <<>>]
        ELSE [status |-> "ok", map |-> st.param_segments]

\* Route::new: Ok(route) or the error of RouteMetadata::try_from.
RouteNew(p, handler, checks) ==
    LET m == parse_param_segments(p, checks)
    IN  [status |-> m.status,
         route |-> [origin |-> p, param_segments |-> m.map,
                    middlewares |-> <<>>, service |-> handler]]

\* ------------------------------------- parse_param_segments (u8, by name)
\* The older Route of server.rs keeps HashMap<String, u8>: placeholder name
\* to offset; the counter is a u8.
U8_MOD == 256

ParseInitU8 == [param_segments |-> <<>>, segment |-> <<>>,
                beginning_found |-> FALSE, slash_counter |-> 0,
                panicked |-> FALSE]

MapInsert(m, k, v) == [x \in DOMAIN m \cup {k} |-> IF x = k THEN v ELSE m[x]]

ParseStepU8(st, c, checks) ==
    IF st.panicked THEN st
    ELSE IF c = "/" THEN
        IF st.slash_counter + 1 >= U8_MOD /\ checks
        THEN [st EXCEPT !.panicked = TRUE]
        ELSE [st EXCEPT !.slash_counter = (@ + 1) % U8_MOD]
    ELSE IF c = "<" THEN [st EXCEPT !.beginning_found = TRUE]
    ELSE IF c = ">" THEN
        IF st.slash_counter = 0 /\ checks
        THEN [st EXCEPT !.panicked = TRUE]
        ELSE [st EXCEPT !.beginning_found = FALSE,
                        !.param_segments =
                            MapInsert(@, st.segment,
                                      (st.slash_counter - 1) % U8_MOD),
                        !.segment = <<>>]
    ELSE IF st.beginning_found THEN [st EXCEPT !.segment = Append(@, c)]
    ELSE st

RECURSIVE ParseLoopU8(_, _, _, _)
ParseLoopU8(value, i, st, checks) ==
    IF i > Len(value) THEN st
    ELSE ParseLoopU8(value, i + 1, ParseStepU8(st, value[i], checks), checks)

parse_param_segments_u8(value, checks) ==
    LET st == ParseLoopU8(value, 1, ParseInitU8, checks)
    IN  IF st.panicked THEN [status |-> "panic", map |-> <<>>]
        ELSE IF st.beginning_found THEN [status |-> "err", map |-> <<>>]
        ELSE [status |-> "ok", map |-> st.param_segments]

\* Route::new of server.rs: the route has no middleware list of its own.
ServerRouteNew(p, handler, checks) ==
    LET m == parse_param_segments_u8(p, checks)
    IN  [status |-> m.status,
         route |-> [origin |-> p, param_segments |-> m.map,
                    middlewares |-> <<>>, service |-> handler]]

\* ------------------------------------------------------------ the menus
Methods == {"GET", "POST"}

\* A handler: the extractors of its parameters in declared order (the last
\* one is the FromRequest parameter) and the type it returns.
h_empty == [params |-> <<>>, ret |-> "unit"]
h_param == [params |-> <<"PathParam">>, ret |-> "string"]
h_three == [params |-> <<"PathParam", "Header", "PathParam", "Json">>,
            ret |-> "json"]
h_host  == [params |-> <<"Header">>, ret |-> "string"]
h_state == [params |-> <<"State">>, ret |-> "string"]
h_state_json == [params |-> <<"State", "Header", "Json">>, ret |-> "string"]

\* values a Router is built with: () of Router::default(), a configuration
States == {"unit", "cfg"}

\* mutant: the service is built without the state of the Router
into_service_with_state_m1(h, st) ==
    [params |-> h.params, ret |-> h.ret, state |-> "unit"]

\* HandlerTrait::into_service_with_state (handler.rs:55-61): the service
\* holds the handler and the state it will hand to it
into_service_with_state(h, st) ==
    [params |-> h.params, ret |-> h.ret, state |-> st]

\* HandlerTraitWithoutState::into_service (handler.rs:73-79)
into_service(h) == into_service_with_state(h, "unit")

p_a     == <<"/", "a">>
p_x     == <<"/", "<", "x", ">">>
p_xy    == <<"/", "<", "x", ">", "/", "<", "y", ">">>
p_open  == <<"/", "<", "x">>
p_bare  == <<"<", "x", ">", "/", "a">>

\* what a builder chain may register on a Router
RouterRegs == {[path |-> p_a, handler |-> h_empty],
               [path |-> p_x, handler |-> h_param],
               [path |-> p_xy, handler |-> h_three],
               [path |-> p_open, handler |-> h_empty],
               [path |-> p_bare, handler |-> h_param],
               [path |-> p_a, handler |-> h_state],
               [path |-> p_a, handler |-> h_state_json]}

\* what a builder chain may register on a Server
ServerRegs == {[path |-> p_a, handler |-> h_empty],
               [path |-> p_x, handler |-> h_host],
               [path |-> p_open, handler |-> h_empty]}

\* request targets: path, optionally followed by a query
Uris == {<<"/", "a">>, <<"/", "b">>, <<"/", "a", "/", "b">>, <<"/">>,
         <<"/", "a", "?", "q">>}

\* ------------------------------------------------------------ RouteGroup
RouteGroupNew(prefix) ==
    [prefix |-> prefix, routes |-> <<>>, middlewares |-> <<>>]

\* mutant: the prefix of the group is dropped
construct_path_m1(g, p) == p

\* RouteGroup::construct_path (route.rs:171-173)
construct_path(g, p) == g.prefix \o p

BucketPush(rs, method, r) ==
    [m \in DOMAIN rs \cup {method} |->
        IF m = method
        THEN (IF m \in DOMAIN rs THEN Append(rs[m], r) ELSE <<r>>)
        ELSE rs[m]]

\* RouteGroup::get / post (route.rs:176-203); the menus below only hold
\* patterns Route::new accepts in every build profile.
RouteGroupRegister(g, method, p, service) ==
    [g EXCEPT !.routes =
        BucketPush(@, method, RouteNew(construct_path(g, p), service, TRUE).route)]

RouteGroupMiddleware(g, m) == [g EXCEPT !.middlewares = Append(@, m)]

\* mutant: the group's middlewares are not injected at merge time
RouteGroupRoutes_m1(g) == g.routes

\* RouteGroup::routes (route.rs:160-169)
RouteGroupRoutes(g) ==
    [m \in DOMAIN g.routes |->
        [k \in 1..Len(g.routes[m]) |->
            [g.routes[m][k] EXCEPT !.middlewares = g.middlewares]]]

g_v1 == RouteGroupMiddleware(RouteGroupMiddleware(
            RouteGroupRegister(RouteGroupNew(p_a), "GET", p_x,
                               into_service(h_param)),
            "M1"), "M2")
g_v2 == RouteGroupRegister(RouteGroupMiddleware(RouteGroupNew(<<>>), "M3"),
                           "GET", p_a, into_service(h_empty))

\* what the builder chains of the two groups were given
GroupBuilds ==
    {[group |-> g_v1, prefix |-> p_a, method |-> "GET", path |-> p_x,
      handler |-> into_service(h_param)],
     [group |-> g_v2, prefix |-> <<>>, method |-> "GET", path |-> p_a,
      handler |-> into_service(h_empty)]}

GroupVectors == {<<g_v1>>, <<g_v2>>, <<g_v1, g_v2>>, <<g_v2, g_v1>>}

RECURSIVE PushAll(_, _, _)
PushAll(rs, method, list) ==
    IF list = <<>> THEN rs
    ELSE PushAll(BucketPush(rs, method, Head(list)), method, Tail(list))

RECURSIVE MergeBuckets(_, _, _)
MergeBuckets(rs, grs, ms) ==
    IF ms = {} THEN rs
    ELSE LET m == CHOOSE x \in ms : TRUE
         IN  MergeBuckets(PushAll(rs, m, grs[m]), grs, ms \ {m})

\* Router::groups (route.rs:101-110)
RECURSIVE MergeGroups(_, _)
MergeGroups(rs, groups) ==
    IF groups = <<>> THEN rs
    ELSE LET grs == RouteGroupRoutes(Head(groups))
         IN  MergeGroups(MergeBuckets(rs, grs, DOMAIN grs), Tail(groups))

\* ---------------------------------------------------------------- lookup
\* Uri::path(): the target up to the first '?'
RECURSIVE PathEnd(_, _)
PathEnd(uri, i) ==
    IF i > Len(uri) \/ uri[i] = "?" THEN i - 1 ELSE PathEnd(uri, i + 1)

uri_path(uri) == SubSeq(uri, 1, PathEnd(uri, 1))

\* mutant: the scan keeps the last matching route instead of the first
RECURSIVE FindLast(_, _, _)
FindLast(bucket, k, target) ==
    IF k < 1 THEN 0
    ELSE IF should_fire_on_path(bucket[k].origin, target) THEN k
    ELSE FindLast(bucket, k - 1, target)

Find_m1(bucket, target) == FindLast(bucket, Len(bucket), target)

\* Iterator::find over the bucket: index of the first route that fires, 0 if
\* none does.
RECURSIVE FindFrom(_, _, _)
FindFrom(bucket, k, target) ==
    IF k > Len(bucket) THEN 0
    ELSE IF should_fire_on_path(bucket[k].origin, target) THEN k
    ELSE FindFrom(bucket, k + 1, target)

Find(bucket, target) == FindFrom(bucket, 1, target)

ErrNoRouteForMethod == "not registered routes for method"
ErrNoMatchingRoute == "no matching route"
ErrHook == "middleware hook failed"

\* mutant: both lookup failures carry the same error
Lookup_m1(rs, method, target) ==
    IF method \notin DOMAIN rs
    THEN [error |-> ErrNoMatchingRoute, idx |-> 0]
    ELSE LET k == Find(rs[method], target)
         IN  IF k = 0 THEN [error |-> ErrNoMatchingRoute, idx |-> 0]
             ELSE [error |-> "", idx |-> k]

\* route.rs:30-36, server.rs:293-300, testing.rs:17-24
Lookup(rs, method, target) ==
    IF method \notin DOMAIN rs
    THEN [error |-> ErrNoRouteForMethod, idx |-> 0]
    ELSE LET k == Find(rs[method], target)
         IN  IF k = 0 THEN [error |-> ErrNoMatchingRoute, idx |-> 0]
             ELSE [error |-> "", idx |-> k]

\* ------------------------------------------------------------ extraction
Event(ev, who, pos) == [ev |-> ev, who |-> who, pos |-> pos]

\* the path segments of the request, without the empty one before the
\* leading '/'
PathSegments(uri) == Tail(split(uri_path(uri)))

\* PathParam::from_request_parts: looks the next ordinal up in the map put
\* into the request extensions, reads the path segment at that offset and
\* advances the ordinal.
ExtractPathParam(cursor, ext, segs) ==
    IF ~ext.present \/ cursor + 1 > Len(ext.map)
    THEN [ok |-> FALSE, value |-> <<>>, cursor |-> cursor]
    ELSE LET offset == ext.map[cursor + 1]
         IN  IF offset >= Len(segs)
             THEN [ok |-> FALSE, value |-> <<>>, cursor |-> cursor]
             ELSE [ok |-> TRUE, value |-> segs[offset + 1],
                   cursor |-> cursor + 1]

\* one extractor; in is the part of the request the model does not hold:
\* whether the wanted header is present and whether the body parses
ExtractOne(kind, cursor, ext, segs, in, st) ==
    IF kind = "PathParam" THEN ExtractPathParam(cursor, ext, segs)
    ELSE IF kind = "Header"
         THEN [ok |-> in.header, value |-> <<"h">>, cursor |-> cursor]
    ELSE IF kind = "Json"
         THEN [ok |-> in.body, value |-> <<"j">>, cursor |-> cursor]
    ELSE [ok |-> TRUE, value |-> <<st>>, cursor |-> cursor]

\* The argument list of handler.rs:95-100: the extractors run left to
\* right, each result is unwrapped, the first failure panics.
RECURSIVE RunExtractors(_, _, _, _, _, _, _, _)
RunExtractors(params, k, cursor, ext, segs, in, st, acc) ==
    IF k > Len(params) THEN acc
    ELSE LET e == ExtractOne(params[k], cursor, ext, segs, in, st)
             log == Append(acc.log, Event("extract", params[k], k))
         IN  IF ~e.ok
             THEN [panicked |-> TRUE, args |-> acc.args, log |-> log]
             ELSE RunExtractors(params, k + 1, e.cursor, ext, segs, in, st,
                                [panicked |-> FALSE,
                                 args |-> Append(acc.args, e.value),
                                 log |-> log])

NoResponse == [status |-> 0, body |-> "none"]
\* Response::default(): 200 with an empty body
DefaultResponse == [status |-> 200, body |-> "empty"]

\* Responder::into_response of the value the handler returned
into_response(ret, conv_ok) ==
    IF ret = "unit" THEN [ok |-> TRUE, response |-> DefaultResponse]
    ELSE IF ret = "string"
         THEN [ok |-> TRUE, response |-> [status |-> 200, body |-> "value"]]
    ELSE IF conv_ok
         THEN [ok |-> TRUE, response |-> [status |-> 200, body |-> "json"]]
    ELSE [ok |-> FALSE, response |-> NoResponse]

\* mutant: the handler body runs before its arguments are extracted
handle_m1(h, ext, uri, in) ==
    LET ex == RunExtractors(h.params, 1, 0, ext, PathSegments(uri), in,
                            h.state,
                            [panicked |-> FALSE, args |-> <<>>, log |-> <<>>])
    IN  [outcome |-> IF ex.panicked THEN "panic" ELSE "response",
         args |-> ex.args,
         log |-> <<Event("body", "handler", 0)>> \o ex.log,
         conv_failed |-> FALSE,
         response |-> IF ex.panicked THEN NoResponse
                      ELSE into_response(h.ret, TRUE).response]

\* HandlerTrait::handle (handler.rs:92-106 and 122-127; server.rs:73-79 and
\* 94-99): extract, call the handler, convert what it returned.
handle(h, ext, uri, in) ==
    LET ex == RunExtractors(h.params, 1, 0, ext, PathSegments(uri), in,
                            h.state,
                            [panicked |-> FALSE, args |-> <<>>, log |-> <<>>])
    IN  IF ex.panicked
        THEN [outcome |-> "panic", args |-> ex.args, log |-> ex.log,
              conv_failed |-> FALSE, response |-> NoResponse]
        ELSE LET r == into_response(h.ret, in.conv)
             IN  [outcome |-> "response", args |-> ex.args,
                  log |-> Append(ex.log, Event("body", "handler", 0)),
                  conv_failed |-> ~r.ok,
                  response |-> IF r.ok THEN r.response ELSE DefaultResponse]

Inputs == [header : BOOLEAN, body : BOOLEAN, conv : BOOLEAN]

\* ------------------------------------------------------------- responders
\* ResponseBuilder::body on ResponseBuilder::default(): the default
\* response with the body set (response.rs:44, 110-113)
WithBody(body) == [DefaultResponse EXCEPT !.body = body]

\* mutant: a failed Result is rendered with the status of a success
RenderErr_m1(e) == WithBody(e)

\* the Err arm of the Responder of anyhow::Result (response.rs:70-73)
RenderErr(e) == [WithBody(e) EXCEPT !.status = 500]

\* Responder::respond_to for (), Response, &str, String and anyhow::Result
\* (response.rs:20-76); an error of the inner responder leaves through `?`
RECURSIVE respond_to(_)
respond_to(v) ==
    IF v.type = "unit" THEN [ok |-> TRUE, response |-> DefaultResponse]
    ELSE IF v.type = "response" THEN [ok |-> TRUE, response |-> v.response]
    ELSE IF v.type \in {"str", "String"}
         THEN [ok |-> TRUE, response |-> WithBody(v.value)]
    ELSE IF v.ok THEN respond_to(v.inner)
    ELSE [ok |-> TRUE, response |-> RenderErr(v.error)]

\* ------------------------------------------------------ pure-function runs
NoCall == [done |-> FALSE, params |-> <<>>, outcome |-> "none",
           args |-> <<>>, log |-> <<>>, response |-> NoResponse]

NoValue == [type |-> "none"]
NoRender == [done |-> FALSE, ok |-> FALSE, response |-> NoResponse]

\* the application variables, unused by the pure-function runs
AppUnused ==
    /\ overflow_checks = FALSE
    /\ app = "none"
    /\ state = "none"
    /\ phase = "none"
    /\ routes = <<>>
    /\ middlewares = <<>>
    /\ registered = 0
    /\ group_calls = 0
    /\ merged = <<>>
    /\ req = <<>>
    /\ threads = <<>>
    /\ listening = FALSE
    /\ call = NoCall
    /\ returned = NoValue
    /\ rendered = NoRender

InitMatch ==
    /\ pattern \in Strings(PatChars, MaxPatLen)
    /\ path \in Strings(PathChars, MaxPathLen)
    /\ fired = [done |-> FALSE, value |-> FALSE]
    /\ parsed = [status |-> "unset", map |-> <<>>]
    /\ AppUnused

ShouldFireOnPath ==
    /\ ~fired.done
    /\ fired' = [done |-> TRUE, value |-> should_fire_on_path(pattern, path)]
    /\ UNCHANGED <<pattern, path, parsed, appVars, call, returned, rendered>>

NextMatch == ShouldFireOnPath

SpecMatch == InitMatch /\ [][NextMatch]_vars

InitParse ==
    /\ pattern \in Strings(PatChars, MaxPatLen)
    /\ path = <<>>
    /\ fired = [done |-> FALSE, value |-> FALSE]
    /\ parsed = [status |-> "unset", map |-> <<>>]
    /\ AppUnused

ParseParamSegments ==
    /\ parsed.status = "unset"
    /\ \E checks \in BOOLEAN :
          parsed' = parse_param_segments(pattern, checks)
    /\ UNCHANGED <<pattern, path, fired, appVars, call, returned, rendered>>

NextParse == ParseParamSegments

SpecParse == InitParse /\ [][NextParse]_vars

\* ------------------------------------------- name-keyed request metadata
\* parse_segments (src/src/request.rs:207-222): the first item of the split
\* is skipped, the others are inserted under their text with their index
RECURSIVE ParseSegmentsLoop(_, _, _)
ParseSegmentsLoop(rest, inx, segments) ==
    IF rest = <<>> THEN segments
    ELSE ParseSegmentsLoop(Tail(rest), inx + 1,
                           MapInsert(segments, Head(rest), inx % U8_MOD))

parse_segments(p) == ParseSegmentsLoop(Tail(split(p)), 0, <<>>)

\* RequestMetadata::from_url: the map of parse_segments with keys and
\* values swapped
from_url(s) ==
    LET m == parse_segments(s)
    IN  [i \in {m[k] : k \in DOMAIN m} |-> CHOOSE k \in DOMAIN m : m[k] = i]

\* Request::query::<String> (src/src/request.rs:162-180)
query(segments, params_segments, query_param) ==
    IF query_param \notin DOMAIN params_segments
    THEN [ok |-> FALSE, value |-> "there's not wanted param's index"]
    ELSE IF params_segments[query_param] \notin DOMAIN segments
    THEN [ok |-> FALSE, value |-> "there's no wanted param"]
    ELSE [ok |-> TRUE, value |-> segments[params_segments[query_param]]]

\* patterns of the routes whose handlers call query
QueryPatterns == {p_x, p_xy}

InitQuery ==
    /\ pattern \in QueryPatterns
    /\ path \in Strings(PathChars, MaxPathLen)
    /\ fired = [done |-> FALSE, value |-> FALSE]
    /\ parsed = [status |-> "unset", map |-> <<>>]
    /\ AppUnused

\* the request is parsed from the stream, the pattern map of the route is
\* injected, the handler queries every name of the pattern
RequestQuery ==
    /\ parsed.status = "unset"
    /\ \E checks \in BOOLEAN :
          LET params == parse_param_segments_u8(pattern, checks).map
              segments == from_url(path)
          IN  parsed' = [status |-> "ok", map |-> segments,
                         params_segments |-> params,
                         query |-> [n \in DOMAIN params |->
                                        query(segments, params, n)]]
    /\ UNCHANGED <<pattern, path, fired, appVars, call, returned, rendered>>

NextQuery == RequestQuery

SpecQuery == InitQuery /\ [][NextQuery]_vars

\* ---------------------------------------------------------- responder runs
\* strings a handler returns or an error displays
Texts == {"", "v1", "boom"}

\* responses a handler builds itself
BuiltResponses == [status : {200, 404, 500}, body : Texts \cup {"empty"}]

PlainValues ==
    {[type |-> "unit"]}
    \cup {[type |-> t, value |-> x] : t \in {"str", "String"}, x \in Texts}
    \cup {[type |-> "response", response |-> r] : r \in BuiltResponses}

\* values a handler may return: plain ones and anyhow::Result around them,
\* nested at most d deep
RECURSIVE ReturnValues(_)
ReturnValues(d) ==
    IF d = 0 THEN PlainValues
    ELSE PlainValues
         \cup {[type |-> "result", ok |-> TRUE, inner |-> x] :
                    x \in ReturnValues(d - 1)}
         \cup {[type |-> "result", ok |-> FALSE, error |-> e] : e \in Texts}

InitRender ==
    /\ pattern = <<>>
    /\ path = <<>>
    /\ fired = [done |-> FALSE, value |-> FALSE]
    /\ parsed = [status |-> "unset", map |-> <<>>]
    /\ overflow_checks = FALSE
    /\ app = "none"
    /\ state = "none"
    /\ phase = "none"
    /\ routes = <<>>
    /\ middlewares = <<>>
    /\ registered = 0
    /\ group_calls = 0
    /\ merged = <<>>
    /\ req = <<>>
    /\ threads = <<>>
    /\ listening = FALSE
    /\ call = NoCall
    /\ returned \in ReturnValues(MaxNesting)
    /\ rendered = NoRender

RespondTo ==
    /\ ~rendered.done
    /\ LET r == respond_to(returned)
       IN  rendered' = [done |-> TRUE, ok |-> r.ok, response |-> r.response]
    /\ UNCHANGED <<pattern, path, fired, parsed, appVars, call, returned>>

NextRender == RespondTo

SpecRender == InitRender /\ [][NextRender]_vars

\* ------------------------------------------------------------ adapter runs
\* One route, one request that fires on it, one handler: Route::new, then
\* what Router::call does with the selected route (route.rs:38-41) on a
\* route without middlewares.
MAX_ARITY == 5

ParamLists ==
    UNION {{p \in [1..n -> {"PathParam", "Header", "Json"}] :
                \A k \in 1..(n - 1) : p[k] # "Json"} : n \in 1..MAX_ARITY}

InitDispatch ==
    /\ pattern \in Strings(PatChars, MaxRouteLen)
    /\ path \in {p \in Strings(PathChars, MaxPathLen) : starts_with(p, "/")}
    /\ should_fire_on_path(pattern, path)
    /\ fired = [done |-> TRUE, value |-> TRUE]
    /\ parsed = [status |-> "unset", map |-> <<>>]
    /\ AppUnused

Register ==
    /\ parsed.status = "unset"
    /\ \E checks \in BOOLEAN :
          parsed' = parse_param_segments(pattern, checks)
    /\ UNCHANGED <<pattern, path, fired, appVars, call, returned, rendered>>

Dispatch(params, in) ==
    /\ parsed.status = "ok"
    /\ ~call.done
    /\ LET r == handle(into_service([params |-> params, ret |-> "string"]),
                       [present |-> TRUE, map |-> parsed.map], path, in)
       IN  call' = [done |-> TRUE, params |-> params, outcome |-> r.outcome,
                    args |-> r.args, log |-> r.log, response |-> r.response]
    /\ UNCHANGED <<pattern, path, fired, parsed, appVars, returned, rendered>>

NextDispatch ==
    \/ Register
    \/ \E params \in ParamLists, in \in {x \in Inputs : x.conv} :
          Dispatch(params, in)

SpecDispatch == InitDispatch /\ [][NextDispatch]_vars

\* The same steps on the routes and requests of the application menus, for
\* every parameter list the macro of handler.rs:111-115 is instantiated for.
InitExtract ==
    /\ pattern \in {p_a, p_x, p_xy}
    /\ path \in {uri_path(u) : u \in Uris}
    /\ should_fire_on_path(pattern, path)
    /\ fired = [done |-> TRUE, value |-> TRUE]
    /\ parsed = [status |-> "unset", map |-> <<>>]
    /\ AppUnused

SpecExtract == InitExtract /\ [][NextDispatch]_vars

\* ------------------------------------------------------- the application
PureUnused ==
    /\ pattern = <<>>
    /\ path = <<>>
    /\ fired = [done |-> FALSE, value |-> FALSE]
    /\ parsed = [status |-> "unset", map |-> <<>>]
    /\ call = NoCall
    /\ returned = NoValue
    /\ rendered = NoRender

NoExt == [present |-> FALSE, map |-> <<>>]

ReqIdle == [pc |-> "idle", entry |-> "none", method |-> "none", uri |-> <<>>,
            route |-> 0, i |-> 0, ext |-> NoExt, log |-> <<>>, args |-> <<>>,
            response |-> NoResponse, error |-> "", conv_failed |-> FALSE,
            result |-> [kind |-> "none", response |-> NoResponse],
            written |-> NoResponse]

Init ==
    /\ PureUnused
    /\ overflow_checks \in BOOLEAN
    /\ app \in {"Router", "Server"}
    /\ state \in (IF app = "Router" THEN States ELSE {"unit"})
    /\ phase = "build"
    /\ routes = <<>>
    /\ middlewares = <<>>
    /\ registered = 0
    /\ group_calls = 0
    /\ merged = <<>>
    /\ req = ReqIdle
    /\ threads = <<>>
    /\ listening = FALSE

\* Router::get / Router::post -> register_path (route.rs:69-98); the expect
\* of route.rs:79 panics on the error of Route::new.
RouterRegisterPath(method, reg) ==
    /\ app = "Router" /\ phase = "build"
    /\ registered + group_calls < MaxBuildCalls
    /\ LET r == RouteNew(reg.path,
                         into_service_with_state(reg.handler, state),
                         overflow_checks)
       IN  IF r.status = "ok"
           THEN /\ routes' = BucketPush(routes, method, r.route)
                /\ registered' = registered + 1
                /\ phase' = phase
           ELSE /\ phase' = "crashed"
                /\ UNCHANGED <<routes, registered>>
    /\ UNCHANGED <<pureVars, overflow_checks, app, state, middlewares, group_calls,
                   merged, req, call>>

\* Router::groups (route.rs:101-110)
RouterGroups(groups) ==
    /\ app = "Router" /\ phase = "build"
    /\ registered + group_calls < MaxBuildCalls
    /\ routes' = MergeGroups(routes, groups)
    /\ group_calls' = group_calls + 1
    /\ merged' = Append(merged, groups)
    /\ UNCHANGED <<pureVars, overflow_checks, app, state, phase, middlewares,
                   registered, req, call>>

\* Server::get / post / put / delete (server.rs:319-372)
ServerRegister(method, reg) ==
    /\ app = "Server" /\ phase = "build"
    /\ registered + group_calls < MaxBuildCalls
    /\ LET r == ServerRouteNew(reg.path, into_service(reg.handler),
                               overflow_checks)
       IN  IF r.status = "ok"
           THEN /\ routes' = BucketPush(routes, method, r.route)
                /\ registered' = registered + 1
                /\ phase' = phase
           ELSE /\ phase' = "crashed"
                /\ UNCHANGED <<routes, registered>>
    /\ UNCHANGED <<pureVars, overflow_checks, app, state, middlewares, group_calls,
                   merged, req, call>>

\* the k-th middleware object registered on the Server
ServerMiddlewareName(k) == <<"S1", "S2", "S3", "S4">>[k]

\* Server::middleware (server.rs:375-381)
ServerMiddleware ==
    /\ app = "Server" /\ phase = "build"
    /\ Len(middlewares) < MaxMiddlewares
    /\ middlewares' = Append(middlewares,
                             ServerMiddlewareName(Len(middlewares) + 1))
    /\ UNCHANGED <<pureVars, overflow_checks, app, state, phase, routes, registered,
                   group_calls, merged, req, call>>

\* the builder chain ends: the application starts to serve
Run ==
    /\ phase = "build"
    /\ phase' = "serve"
    /\ UNCHANGED <<pureVars, overflow_checks, app, state, routes, middlewares,
                   registered, group_calls, merged, req, call>>

Entries == IF app = "Router" THEN {"Router"} ELSE {"Server", "Client"}

\* mutant: Server::handle runs the route's own list, not the Server's
Hooks_m1(entry, route) ==
    IF entry \in {"Router", "Server"} THEN route.middlewares ELSE <<>>

\* the hooks run around the dispatch: the route's own list in Route::fire,
\* the Server's list in Server::handle, none in the test Client
Hooks(entry, route) ==
    IF entry = "Router" THEN route.middlewares
    ELSE IF entry = "Server" THEN middlewares
    ELSE <<>>

\* what the lookup matches: Router and Client use uri().path(), the Server
\* uses uri().to_string()
Target(entry, uri) == IF entry = "Server" THEN uri ELSE uri_path(uri)

\* A request arrives and is looked up: Router::call (route.rs:30-39),
\* Server::handle (server.rs:292-300), Client::send (testing.rs:17-28).
Start(entry, method, uri) ==
    /\ phase = "serve"
    /\ req.pc \in {"idle", "done"}
    /\ entry \in Entries
    /\ LET l == Lookup(routes, method, Target(entry, uri))
           r == [ReqIdle EXCEPT !.entry = entry, !.method = method,
                                !.uri = uri]
       IN  IF l.error # ""
           THEN req' = [r EXCEPT !.pc = "return", !.error = l.error]
           ELSE LET route == routes[method][l.idx]
                IN  req' = [r EXCEPT
                        !.route = l.idx,
                        !.i = 1,
                        !.ext = IF entry = "Server" THEN NoExt
                                ELSE [present |-> TRUE,
                                      map |-> route.param_segments],
                        !.pc = IF Hooks(entry, route) = <<>>
                               THEN "service" ELSE "on_request"]
    /\ UNCHANGED <<pureVars, overflow_checks, app, state, phase, routes, middlewares,
                   registered, group_calls, merged, call>>

\* mutant: the on_response hooks run in reverse registration order
ResponseHookAt_m1(hooks, i) == hooks[Len(hooks) + 1 - i]

\* the i-th step of `for m in &self.middlewares` (route.rs:310, 316)
RequestHookAt(hooks, i) == hooks[i]
ResponseHookAt(hooks, i) == hooks[i]

CurrentRoute == routes[req.method][req.route]
CurrentHooks == Hooks(req.entry, CurrentRoute)

\* mutant: a failing on_request hook is recorded but the loop goes on
OnRequestHook_m1(ok) ==
    /\ req.pc = "on_request"
    /\ LET m == RequestHookAt(CurrentHooks, req.i)
           log == Append(req.log, Event("on_request", m, req.i))
       IN  req' = [req EXCEPT !.log = log, !.i = @ + 1,
                        !.error = IF ok THEN @ ELSE ErrHook,
                        !.pc = IF req.i + 1 > Len(CurrentHooks)
                               THEN "service" ELSE "on_request"]
    /\ UNCHANGED <<pureVars, overflow_checks, app, state, phase, routes, middlewares,
                   registered, group_calls, merged, call>>

\* one on_request hook (route.rs:310-312, server.rs:302-304); its error
\* leaves the loop and the function through `?`
OnRequestHook(ok) ==
    /\ req.pc = "on_request"
    /\ LET m == RequestHookAt(CurrentHooks, req.i)
           log == Append(req.log, Event("on_request", m, req.i))
       IN  IF ok
           THEN req' = [req EXCEPT !.log = log, !.i = @ + 1,
                            !.pc = IF req.i + 1 > Len(CurrentHooks)
                                   THEN "service" ELSE "on_request"]
           ELSE req' = [req EXCEPT !.log = log, !.error = ErrHook,
                                   !.pc = "return"]
    /\ UNCHANGED <<pureVars, overflow_checks, app, state, phase, routes, middlewares,
                   registered, group_calls, merged, call>>

\* the dispatch adapter: service.0.call(request) (route.rs:314,
\* server.rs:306, testing.rs:30); a panic of an unwrap unwinds the thread
ServiceCall(in) ==
    /\ req.pc = "service"
    /\ LET r == handle(CurrentRoute.service, req.ext, req.uri, in)
           log == Append(req.log, Event("service", "adapter", 0)) \o r.log
       IN  IF r.outcome = "panic"
           THEN req' = [req EXCEPT !.log = log, !.args = r.args,
                            !.pc = "done",
                            !.result = [kind |-> "panic",
                                        response |-> NoResponse]]
           ELSE req' = [req EXCEPT !.log = log, !.args = r.args,
                            !.response = r.response, !.i = 1,
                            !.conv_failed = r.conv_failed,
                            !.pc = IF CurrentHooks = <<>>
                                   THEN "return" ELSE "on_response"]
    /\ UNCHANGED <<pureVars, overflow_checks, app, state, phase, routes, middlewares,
                   registered, group_calls, merged, call>>

\* one on_response hook (route.rs:316-318, server.rs:308-310)
OnResponseHook(ok) ==
    /\ req.pc = "on_response"
    /\ LET m == ResponseHookAt(CurrentHooks, req.i)
           log == Append(req.log, Event("on_response", m, req.i))
       IN  IF ok
           THEN req' = [req EXCEPT !.log = log, !.i = @ + 1,
                            !.pc = IF req.i + 1 > Len(CurrentHooks)
                                   THEN "return" ELSE "on_response"]
           ELSE req' = [req EXCEPT !.log = log, !.error = ErrHook,
                                   !.pc = "return"]
    /\ UNCHANGED <<pureVars, overflow_checks, app, state, phase, routes, middlewares,
                   registered, group_calls, merged, call>>

\* mutant: Server::handle writes whatever response exists before it returns
Return_m2 ==
    /\ req.pc = "return"
    /\ req' = [req EXCEPT
            !.pc = "done",
            !.result =
                IF req.entry = "Router"
                THEN [kind |-> "response",
                      response |-> IF req.error = "" THEN req.response
                                   ELSE [status |-> 500, body |-> req.error]]
                ELSE IF req.error # ""
                THEN [kind |-> "err", response |-> NoResponse]
                ELSE IF req.entry = "Server"
                THEN [kind |-> "ok", response |-> NoResponse]
                ELSE [kind |-> "response", response |-> req.response],
            !.written = IF req.entry = "Server"
                        THEN req.response ELSE NoResponse]
    /\ UNCHANGED <<pureVars, overflow_checks, app, state, phase, routes,
                   middlewares, registered, group_calls, merged, call>>

\* mutant: Service::call of the Router answers an error with status 200
Return_m1 ==
    /\ req.pc = "return"
    /\ req' = [req EXCEPT
            !.pc = "done",
            !.result =
                IF req.error # ""
                THEN [kind |-> "response",
                      response |-> [status |-> 200, body |-> req.error]]
                ELSE [kind |-> IF req.entry = "Server" THEN "ok"
                               ELSE "response",
                      response |-> IF req.entry = "Server" THEN NoResponse
                                   ELSE req.response],
            !.written = IF req.entry = "Server" /\ req.error = ""
                        THEN req.response ELSE NoResponse]
    /\ UNCHANGED <<pureVars, overflow_checks, app, state, phase, routes,
                   middlewares, registered, group_calls, merged, call>>

\* What the entry point hands back.  Service::call of the Router
\* (route.rs:114-122) turns an error into a 500 response carrying its text;
\* Server::handle (server.rs:312-315) writes the response on success and
\* returns the error, with nothing written, otherwise; Client::send returns
\* the Result as it is.
Return ==
    /\ req.pc = "return"
    /\ req' = [req EXCEPT
            !.pc = "done",
            !.result =
                IF req.entry = "Router"
                THEN [kind |-> "response",
                      response |-> IF req.error = "" THEN req.response
                                   ELSE [status |-> 500, body |-> req.error]]
                ELSE IF req.error # ""
                THEN [kind |-> "err", response |-> NoResponse]
                ELSE IF req.entry = "Server"
                THEN [kind |-> "ok", response |-> NoResponse]
                ELSE [kind |-> "response", response |-> req.response],
            !.written = IF req.entry = "Server" /\ req.error = ""
                        THEN req.response ELSE NoResponse]
    /\ UNCHANGED <<pureVars, overflow_checks, app, state, phase, routes, middlewares,
                   registered, group_calls, merged, call>>

Next ==
    \/ \E method \in Methods, reg \in RouterRegs : RouterRegisterPath(method, reg)
    \/ \E groups \in GroupVectors : RouterGroups(groups)
    \/ \E method \in Methods, reg \in ServerRegs : ServerRegister(method, reg)
    \/ ServerMiddleware
    \/ Run
    \/ \E entry \in {"Router", "Server", "Client"}, method \in Methods,
          uri \in Uris : Start(entry, method, uri)
    \/ \E ok \in BOOLEAN : OnRequestHook(ok)
    \/ \E in \in Inputs : ServiceCall(in)
    \/ \E ok \in BOOLEAN : OnResponseHook(ok)
    \/ Return

Spec == Init /\ [][Next]_vars

\* ------------------------------------------------------ concurrent serving
\* Every request is served on a thread of its own (server.rs:283); the
\* steps of the threads interleave.  A thread holds its request: the
\* extensions with the map put there after the lookup, the position of the
\* next path parameter, the body, and what the thread decided so far.
NoInput == [header |-> TRUE, body |-> TRUE, conv |-> TRUE]
NoFailure == [phase |-> "none", at |-> 0]

ThreadIdle ==
    [pc |-> "idle", entry |-> "none", method |-> "none", uri |-> <<>>,
     route |-> 0, i |-> 0, ext |-> NoExt, cursor |-> 0, k |-> 0,
     body |-> "none", seen |-> <<>>, input |-> NoInput, failed |-> NoFailure,
     log |-> <<>>, args |-> <<>>, response |-> NoResponse, error |-> "",
     conv_failed |-> FALSE,
     result |-> [kind |-> "none", response |-> NoResponse],
     written |-> NoResponse]

\* request targets of the concurrent runs
ServeUris == {<<"/", "a", "/", "b">>, <<"/", "b", "/", "a">>, <<"/", "a">>}

\* Router::with_state(cfg).groups(vec![g_v1]).get("/<x>/<y>", h_three)
RouterApp ==
    [app |-> "Router", state |-> "cfg",
     routes |-> BucketPush(MergeGroups(<<>>, <<g_v1>>), "GET",
                           RouteNew(p_xy,
                                    into_service_with_state(h_three, "cfg"),
                                    TRUE).route),
     middlewares |-> <<>>, merged |-> <<<<g_v1>>>>,
     registered |-> 1, group_calls |-> 1]

\* Server::new(..).get("/a", h_host).middleware(S1)
ServerApp ==
    [app |-> "Server", state |-> "unit",
     routes |-> BucketPush(<<>>, "GET",
                           ServerRouteNew(p_a, into_service(h_host),
                                          TRUE).route),
     middlewares |-> <<ServerMiddlewareName(1)>>, merged |-> <<>>,
     registered |-> 1, group_calls |-> 0]

ServedApps == {RouterApp, ServerApp}

InitServe ==
    /\ PureUnused
    /\ overflow_checks \in BOOLEAN
    /\ \E a \in ServedApps :
          /\ app = a.app
          /\ state = a.state
          /\ routes = a.routes
          /\ middlewares = a.middlewares
          /\ merged = a.merged
          /\ registered = a.registered
          /\ group_calls = a.group_calls
    /\ phase = "serve"
    /\ req = ReqIdle
    /\ threads = [t \in 1..MaxThreads |-> ThreadIdle]
    /\ listening = TRUE

\* mutant: the lookup takes the route out of its bucket
TableAfterLookup_m1(rs, method, idx) ==
    [rs EXCEPT ![method] = SubSeq(@, 1, idx - 1) \o SubSeq(@, idx + 1, Len(@))]

\* the table after a lookup: Router::call borrows the route (route.rs:30-36),
\* Server::handle and Client::send clone it (server.rs:300, testing.rs:24)
TableAfterLookup(rs, method, idx) == rs

\* a connection is accepted and its thread looks the route up
\* (server.rs:280-300, route.rs:30-39, testing.rs:17-28)
TStart(t, entry, method, uri) ==
    /\ phase = "serve" /\ listening
    /\ threads[t].pc \in {"idle", "done"}
    /\ entry \in Entries
    /\ LET l == Lookup(routes, method, Target(entry, uri))
           r == [ThreadIdle EXCEPT !.entry = entry, !.method = method,
                                   !.uri = uri, !.body = "intact"]
       IN  IF l.error # ""
           THEN /\ threads' = [threads EXCEPT
                        ![t] = [r EXCEPT !.pc = "return", !.error = l.error]]
                /\ routes' = routes
           ELSE LET route == routes[method][l.idx]
                IN  /\ threads' = [threads EXCEPT ![t] = [r EXCEPT
                            !.route = l.idx,
                            !.i = 1,
                            !.ext = IF entry = "Server" THEN NoExt
                                    ELSE [present |-> TRUE,
                                          map |-> route.param_segments],
                            !.pc = IF Hooks(entry, route) = <<>>
                                   THEN "service" ELSE "on_request"]]
                    /\ routes' = TableAfterLookup(routes, method, l.idx)
    /\ UNCHANGED <<pattern, path, fired, parsed, returned, rendered,
                   overflow_checks, app, state, phase, middlewares,
                   registered, group_calls, merged, req, call, listening>>

ThreadRoute(t) == routes[threads[t].method][threads[t].route]
ThreadHooks(t) == Hooks(threads[t].entry, ThreadRoute(t))

\* the frame of the steps a thread takes after the lookup
ThreadFrame ==
    UNCHANGED <<pattern, path, fired, parsed, returned, rendered,
                overflow_checks, app, state, phase, routes, middlewares,
                registered, group_calls, merged, req, call>>

\* one on_request hook of the thread (route.rs:310-312, server.rs:302-304)
TOnRequestHook(t, ok) ==
    /\ threads[t].pc = "on_request"
    /\ LET th == threads[t]
           m == RequestHookAt(ThreadHooks(t), th.i)
           log == Append(th.log, Event("on_request", m, th.i))
       IN  threads' = [threads EXCEPT ![t] =
               IF ok
               THEN [th EXCEPT !.log = log, !.i = @ + 1,
                        !.pc = IF th.i + 1 > Len(ThreadHooks(t))
                               THEN "service" ELSE "on_request"]
               ELSE [th EXCEPT !.log = log, !.error = ErrHook,
                        !.failed = [phase |-> "on_request", at |-> th.i],
                        !.pc = "return"]]
    /\ listening' = listening
    /\ ThreadFrame

\* the adapter is entered: request.into_parts() (handler.rs:93); the
\* position of the next path parameter starts at 0 in every dispatch
TIntoParts(t) ==
    /\ threads[t].pc = "service"
    /\ LET th == threads[t]
       IN  threads' = [threads EXCEPT ![t] = [th EXCEPT
               !.log = Append(@, Event("service", "adapter", 0)),
               !.cursor = 0,
               !.k = 1,
               !.pc = IF ThreadRoute(t).service.params = <<>>
                      THEN "body" ELSE "extract"]]
    /\ listening' = listening
    /\ ThreadFrame

\* what the k-th extractor is given (handler.rs:95-99): every parameter but
\* the last gets &mut parts, the last one the request put together again
\* from the parts and the body
Given(params, k) == IF k < Len(params) THEN "parts" ELSE "request"

\* mutant: the header extractor drains the body as well
BodyAfter_m1(kind, given, body) ==
    IF kind \in {"Json", "Header"} THEN "consumed" ELSE body

\* the body after an extractor ran: only a body extractor that was given
\* the whole request reads it
BodyAfter(kind, given, body) ==
    IF given = "request" /\ kind = "Json" THEN "consumed" ELSE body

\* mutant: one position of the next path parameter for all requests
CursorSeen_m1(ts, t) == ts[1].cursor

\* the position of the next path parameter an extractor of thread t sees:
\* it is kept in the extensions of the thread's own request
CursorSeen(ts, t) == ts[t].cursor

\* mutant: a panic of a serving thread takes the accept loop down
AfterPanic_m1(l) == FALSE

\* a panic of an unwrap unwinds the thread spawned for the connection
\* (server.rs:283) and nothing else
AfterPanic(l) == l

\* one argument of the handler call is extracted and unwrapped
\* (handler.rs:95-99)
TExtract(t, ok) ==
    /\ threads[t].pc = "extract"
    /\ LET th == threads[t]
           h == ThreadRoute(t).service
           kind == h.params[th.k]
           given == Given(h.params, th.k)
           input == [th.input EXCEPT
                        !.header = IF kind = "Header" THEN ok ELSE @,
                        !.body = IF kind = "Json" THEN ok ELSE @]
           e == ExtractOne(kind, CursorSeen(threads, t), th.ext,
                           PathSegments(th.uri), input, h.state)
           log == Append(th.log, Event("extract", kind, th.k))
           seen == Append(th.seen,
                          [kind |-> kind, given |-> given,
                           ordinal |-> CursorSeen(threads, t),
                           body |-> IF given = "request" THEN th.body
                                    ELSE "absent"])
       IN  /\ kind \notin {"Header", "Json"} => ok
           /\ (\E j \in 1..(th.k - 1) : h.params[j] = kind) => ok
           /\ IF ~e.ok
              THEN /\ threads' = [threads EXCEPT ![t] = [th EXCEPT
                          !.log = log, !.seen = seen, !.input = input,
                          !.pc = "done",
                          !.result = [kind |-> "panic",
                                      response |-> NoResponse]]]
                   /\ listening' = AfterPanic(listening)
              ELSE /\ threads' = [threads EXCEPT ![t] = [th EXCEPT
                          !.log = log, !.seen = seen, !.input = input,
                          !.args = Append(@, e.value),
                          !.cursor = e.cursor,
                          !.body = BodyAfter(kind, given, th.body),
                          !.k = @ + 1,
                          !.pc = IF th.k = Len(h.params)
                                 THEN "body" ELSE "extract"]]
                   /\ listening' = listening
    /\ ThreadFrame

\* the handler is called and what it returned is converted
\* (handler.rs:95-106, 122-127)
TBody(t, conv_ok) ==
    /\ threads[t].pc = "body"
    /\ LET th == threads[t]
           h == ThreadRoute(t).service
           r == into_response(h.ret, conv_ok)
       IN  /\ h.ret # "json" => conv_ok
           /\ threads' = [threads EXCEPT ![t] = [th EXCEPT
                  !.log = Append(@, Event("body", "handler", 0)),
                  !.input = [@ EXCEPT !.conv = conv_ok],
                  !.conv_failed = ~r.ok,
                  !.response = IF r.ok THEN r.response ELSE DefaultResponse,
                  !.i = 1,
                  !.pc = IF ThreadHooks(t) = <<>>
                         THEN "return" ELSE "on_response"]]
    /\ listening' = listening
    /\ ThreadFrame

\* one on_response hook of the thread (route.rs:316-318, server.rs:308-310)
TOnResponseHook(t, ok) ==
    /\ threads[t].pc = "on_response"
    /\ LET th == threads[t]
           m == ResponseHookAt(ThreadHooks(t), th.i)
           log == Append(th.log, Event("on_response", m, th.i))
       IN  threads' = [threads EXCEPT ![t] =
               IF ok
               THEN [th EXCEPT !.log = log, !.i = @ + 1,
                        !.pc = IF th.i + 1 > Len(ThreadHooks(t))
                               THEN "return" ELSE "on_response"]
               ELSE [th EXCEPT !.log = log, !.error = ErrHook,
                        !.failed = [phase |-> "on_response", at |-> th.i],
                        !.pc = "return"]]
    /\ listening' = listening
    /\ ThreadFrame

\* what the entry point hands back for an error text ("" for none) and a
\* response (route.rs:114-122, server.rs:283-286 and 312-315,
\* testing.rs:30)
HandBack(entry, error, response) ==
    [result |->
        IF entry = "Router"
        THEN [kind |-> "response",
              response |-> IF error = "" THEN response
                           ELSE [status |-> 500, body |-> error]]
        ELSE IF error # ""
        THEN [kind |-> "err", response |-> NoResponse]
        ELSE IF entry = "Server"
        THEN [kind |-> "ok", response |-> NoResponse]
        ELSE [kind |-> "response", response |-> response],
     written |-> IF entry = "Server" /\ error = ""
                 THEN response ELSE NoResponse]

\* the thread ends: the response or the error is handed back; the Server's
\* thread logs an error and ends (server.rs:283-286)
TReturn(t) ==
    /\ threads[t].pc = "return"
    /\ LET th == threads[t]
           back == HandBack(th.entry, th.error, th.response)
       IN  threads' = [threads EXCEPT ![t] = [th EXCEPT
               !.pc = "done",
               !.result = back.result,
               !.written = back.written]]
    /\ listening' = listening
    /\ ThreadFrame

NextServe ==
    \/ \E t \in DOMAIN threads, entry \in {"Router", "Server", "Client"},
          method \in Methods, uri \in ServeUris : TStart(t, entry, method, uri)
    \/ \E t \in DOMAIN threads, ok \in BOOLEAN : TOnRequestHook(t, ok)
    \/ \E t \in DOMAIN threads : TIntoParts(t)
    \/ \E t \in DOMAIN threads, ok \in BOOLEAN : TExtract(t, ok)
    \/ \E t \in DOMAIN threads, conv_ok \in BOOLEAN : TBody(t, conv_ok)
    \/ \E t \in DOMAIN threads, ok \in BOOLEAN : TOnResponseHook(t, ok)
    \/ \E t \in DOMAIN threads : TReturn(t)

SpecServe == InitServe /\ [][NextServe]_vars

\* A Router with one route, /<x>/<y> in a group with one middleware, whose
\* handler takes the parameters ps; one thread serves it.
HandlerApp(ps) ==
    LET g == RouteGroupMiddleware(
                 RouteGroupRegister(RouteGroupNew(<<>>), "GET", p_xy,
                                    into_service([params |-> ps,
                                                  ret |-> "string"])),
                 "M1")
    IN  [routes |-> MergeGroups(<<>>, <<g>>), merged |-> <<<<g>>>>]

InitHandle ==
    /\ PureUnused
    /\ overflow_checks \in BOOLEAN
    /\ app = "Router"
    /\ state = "unit"
    /\ \E ps \in ParamLists \cup {<<>>} :
          /\ routes = HandlerApp(ps).routes
          /\ merged = HandlerApp(ps).merged
    /\ middlewares = <<>>
    /\ registered = 0
    /\ group_calls = 1
    /\ phase = "serve"
    /\ req = ReqIdle
    /\ threads = <<ThreadIdle>>
    /\ listening = TRUE

SpecHandle == InitHandle /\ [][NextServe]_vars

\* The request served alone, in one piece: the lookup, the on_request
\* hooks up to the failing one, the adapter, the on_response hooks, and what
\* is handed back (route.rs:29-45 and 309-321, server.rs:291-316,
\* testing.rs:16-31).
ServedAlone(entry, method, uri, input, failed) ==
    LET l == Lookup(routes, method, Target(entry, uri))
    IN  IF l.error # ""
        THEN [log |-> <<>>, args |-> <<>>,
              back |-> HandBack(entry, l.error, NoResponse)]
        ELSE
        LET route == routes[method][l.idx]
            hooks == Hooks(entry, route)
            ext == IF entry = "Server" THEN NoExt
                   ELSE [present |-> TRUE, map |-> route.param_segments]
            n_req == IF failed.phase = "on_request" THEN failed.at
                     ELSE Len(hooks)
            n_resp == IF failed.phase = "on_response" THEN failed.at
                      ELSE Len(hooks)
            req_log == [j \in 1..n_req |->
                           Event("on_request", RequestHookAt(hooks, j), j)]
            resp_log == [j \in 1..n_resp |->
                            Event("on_response", ResponseHookAt(hooks, j), j)]
            r == handle(route.service, ext, uri, input)
            svc_log == req_log \o <<Event("service", "adapter", 0)>> \o r.log
        IN  IF failed.phase = "on_request"
            THEN [log |-> req_log, args |-> <<>>,
                  back |-> HandBack(entry, ErrHook, NoResponse)]
            ELSE IF r.outcome = "panic"
            THEN [log |-> svc_log, args |-> r.args,
                  back |-> [result |-> [kind |-> "panic",
                                        response |-> NoResponse],
                            written |-> NoResponse]]
            ELSE [log |-> svc_log \o resp_log, args |-> r.args,
                  back |-> HandBack(entry,
                                    IF failed.phase = "on_response"
                                    THEN ErrHook ELSE "",
                                    r.response)]

\* ------------------------------------------------------------------ C1
\* C1: should_fire_on_path(Q) is true exactly when pattern and path split
\* on '/' into the same number of segments and every pattern segment that
\* is not a placeholder equals the path segment at the same position.
SameSegments(P, Q) ==
    LET sp == split(P)
        sq == split(Q)
    IN  /\ Len(sp) = Len(sq)
        /\ \A i \in 1..Len(sp) : IsPlaceholderSegment(sp[i]) \/ sp[i] = sq[i]

EmptyAtPlaceholder(P, Q) ==
    LET sp == split(P)
        sq == split(Q)
    IN  \E i \in 1..Len(sp) :
            /\ IsPlaceholderSegment(sp[i])
            /\ i <= Len(sq)
            /\ sq[i] = <<>>

C10_EmptySegmentNeverMatches ==
    (fired.done /\ EmptyAtPlaceholder(pattern, path)) => ~fired.value

\* ------------------------------------------------------------------ C9
\* number of '<' of s that are still waiting for a '>' of their own
RECURSIVE OpenCount(_, _, _)
OpenCount(s, i, depth) ==
    IF i > Len(s) THEN depth
    ELSE IF s[i] = "<" THEN OpenCount(s, i + 1, depth + 1)
    ELSE IF s[i] = ">" /\ depth > 0 THEN OpenCount(s, i + 1, depth - 1)
    ELSE OpenCount(s, i + 1, depth)

AllClosed(s) == OpenCount(s, 1, 0) = 0

\* C9: registering a pattern fails with the error of Route::new whenever
\* some '<' of the pattern has no '>' of its own, and succeeds for every
\* pattern whose placeholders are all closed.
C9_RegistrationFailsIffUnclosed ==
    parsed.status # "unset" =>
        /\ (~AllClosed(pattern) => parsed.status = "err")
        /\ (AllClosed(pattern) => parsed.status = "ok")

\* ------------------------------------------------------------------ C2
Looked == req.pc # "idle" /\ req.route # 0
ReqTarget == Target(req.entry, req.uri)
Matching(bucket, target) ==
    {k \in 1..Len(bucket) : should_fire_on_path(bucket[k].origin, target)}

SelectedIsFirstMatch ==
    Looked =>
        LET ms == Matching(routes[req.method], ReqTarget)
        IN  req.route \in ms /\ \A k \in ms : req.route <= k

IsPrefix(a, b) == Len(a) <= Len(b) /\ SubSeq(b, 1, Len(a)) = a

Bucket(rs, m) == IF m \in DOMAIN rs THEN rs[m] ELSE <<>>
Origins(bucket) == [k \in 1..Len(bucket) |-> bucket[k].origin]

\* the patterns of the routes of the groups, group after group
RECURSIVE GroupOrigins(_, _)
GroupOrigins(groups, m) ==
    IF groups = <<>> THEN <<>>
    ELSE Origins(Bucket(Head(groups).routes, m)) \o GroupOrigins(Tail(groups), m)

\* registration only ever appends to a bucket, and a call of groups appends
\* the routes of the groups in the order of the vector
BucketsGrowAtEnd ==
    \A m \in Methods :
        LET old == Bucket(routes, m)
            new == Bucket(routes', m)
        IN  /\ IsPrefix(old, new)
            /\ merged' # merged =>
                  Origins(SubSeq(new, Len(old) + 1, Len(new)))
                      = GroupOrigins(merged'[Len(merged')], m)

\* the same request looked up again on the same table selects the same route
SameLookupSameRoute ==
    (/\ req.pc = "done" /\ req'.pc # "done"
     /\ req'.entry = req.entry /\ req'.method = req.method
     /\ req'.uri = req.uri)
    => (req'.route = req.route /\ routes' = routes)

\* C2: a bucket holds its routes in registration order, the route selected
\* for a request is the matching route at the smallest position of the
\* bucket, and a repeated lookup selects the same route.
C2_FirstMatchWins ==
    /\ []SelectedIsFirstMatch
    /\ [][BucketsGrowAtEnd /\ SameLookupSameRoute]_vars

\* the first of two routes that both fire on the path was selected
C2_Witness ==
    /\ Looked /\ req.route = 1
    /\ Cardinality(Matching(routes[req.method], ReqTarget)) >= 2
    /\ routes[req.method][1].origin # routes[req.method][2].origin

\* ------------------------------------------------------------------ C4
RECURSIVE SelectEvents(_, _)
SelectEvents(log, evs) ==
    IF log = <<>> THEN <<>>
    ELSE IF Head(log).ev \in evs
         THEN <<Head(log)>> \o SelectEvents(Tail(log), evs)
         ELSE SelectEvents(Tail(log), evs)

HookTrace(log) ==
    LET l == SelectEvents(log, {"on_request", "service", "on_response"})
    IN  [k \in 1..Len(l) |-> <<l[k].ev, l[k].who>>]

\* M1.on_request .. Mn.on_request, the adapter, M1.on_response .. Mn.on_response
Canonical(hooks) ==
    [k \in 1..Len(hooks) |-> <<"on_request", hooks[k]>>]
    \o <<(<<"service", "adapter">>)>>
    \o [k \in 1..Len(hooks) |-> <<"on_response", hooks[k]>>]

FireReturnedOk ==
    req.pc \in {"return", "done"} /\ req.error = "" /\ req.result.kind # "panic"

\* C4: around one matched route the hooks and the dispatch adapter run in
\* the order M1.on_request .. Mn.on_request, adapter, M1.on_response ..
\* Mn.on_response: what has run so far is always a prefix of that sequence,
\* and it is the whole sequence once fire has returned a response.
C4_HookOrder ==
    (Looked /\ req.entry \in {"Router", "Server"}) =>
        /\ IsPrefix(HookTrace(req.log), Canonical(CurrentHooks))
        /\ FireReturnedOk => HookTrace(req.log) = Canonical(CurrentHooks)

\* Route::fire returned Ok on a route with two middlewares
C4_Witness ==
    /\ Looked /\ req.entry = "Router" /\ FireReturnedOk
    /\ Len(CurrentHooks) = 2
    /\ Len(HookTrace(req.log)) = 5

\* ------------------------------------------------------------------ C6
NoHookNoHandler == req.log = <<>>

\* C6: a request whose method has no bucket ends with the NoRouteForMethod
\* error, a request whose method has a bucket none of whose routes fires
\* ends with the NoMatchingRoute error, the two errors differ, and in both
\* cases no hook and no handler has run.
C6_LookupErrors ==
    req.pc # "idle" =>
        /\ req.method \notin DOMAIN routes
              => (req.error = ErrNoRouteForMethod /\ NoHookNoHandler)
        /\ (req.method \in DOMAIN routes
            /\ Matching(routes[req.method], ReqTarget) = {})
              => (req.error = ErrNoMatchingRoute /\ NoHookNoHandler)
        /\ ErrNoRouteForMethod # ErrNoMatchingRoute

\* a request for a method that has routes, none of which fires
C6_Witness ==
    /\ req.pc = "done" /\ req.entry = "Router"
    /\ req.method \in DOMAIN routes
    /\ req.error = ErrNoMatchingRoute
    /\ req.result.response.status = 500

\* ------------------------------------------------------------------ C5
LastEvent == req.log[Len(req.log)]

\* C5: when a hook fails, no later hook of that phase runs for the request
\* and the request ends with a generic error response produced for the
\* client instead of the handler's response.
C5_HookFailureGivesErrorResponse ==
    (req.pc = "done" /\ req.error = ErrHook) =>
        /\ LastEvent.ev \in {"on_request", "on_response"}
        /\ req.result.kind = "response"
        /\ req.result.response.status = 500

\* ------------------------------------------------------------------ C7
ExtractionFailed ==
    Len(SelectEvents(req.log, {"extract"})) > Len(req.args)

\* C7: when an extractor fails the handler body is not invoked, the serving
\* thread does not panic, and a response is still produced for the request.
C7_ExtractionFailureIsContained ==
    (req.pc = "done" /\ ExtractionFailed) =>
        /\ SelectEvents(req.log, {"body"}) = <<>>
        /\ req.result.kind # "panic"
        /\ (req.result.kind = "response" \/ req.written # NoResponse)

\* ------------------------------------------------------------------ C8
\* C8: when the conversion of the handler's return value fails, the
\* dispatch adapter returns a response with status 500 whose body is the
\* error text.
C8_ConversionFailureGives500 ==
    req.conv_failed =>
        /\ req.response.status = 500
        /\ req.response.body = "conversion error text"

\* ------------------------------------------------------------------ C3
HasNo(seg, c) == \A k \in 1..Len(seg) : seg[k] # c

\* a segment of the pattern grammar: a literal or <name>
GrammarSegment(seg) ==
    \/ HasNo(seg, "<") /\ HasNo(seg, ">")
    \/ /\ IsPlaceholderSegment(seg)
       /\ LET name == SubSeq(seg, 2, Len(seg) - 1)
          IN  HasNo(name, "<") /\ HasNo(name, ">")

GrammarPattern(P) == \A k \in 1..Len(split(P)) : GrammarSegment(split(P)[k])

RECURSIVE Ascending(_)
Ascending(S) ==
    IF S = {} THEN <<>>
    ELSE LET m == CHOOSE x \in S : \A y \in S : x <= y
         IN  <<m>> \o Ascending(S \ {m})

\* positions, among the segments of the pattern, of its placeholders
PlaceholderPositions(P) ==
    Ascending({k \in 1..Len(split(P)) : IsPlaceholderSegment(split(P)[k])})

\* positions, among the parameters, of the path-parameter extractors
PathParamPositions(params) ==
    Ascending({k \in 1..Len(params) : params[k] = "PathParam"})

\* the i-th path-parameter extractor was run
Ran(i) == PathParamPositions(call.params)[i]
              <= Len(SelectEvents(call.log, {"extract"}))

\* C3: on a route whose pattern has K placeholders, dispatched to a handler
\* with K path-parameter extractors, the i-th of them receives the segment
\* of the request path that stands where the i-th placeholder stands in the
\* pattern, whatever other extractors are declared between them.
C3_PathParamsBindByPosition ==
    (/\ call.done
     /\ GrammarPattern(pattern)
     /\ Len(PathParamPositions(call.params))
            = Len(PlaceholderPositions(pattern)))
    => \A i \in 1..Len(PlaceholderPositions(pattern)) :
          Ran(i) =>
             LET at == PathParamPositions(call.params)[i]
             IN  /\ at <= Len(call.args)
                 /\ call.args[at] = split(path)[PlaceholderPositions(pattern)[i]]

\* ------------------------------------------------------------------ C11
Range(f) == {f[k] : k \in DOMAIN f}

\* what the global middlewares and the adapter did, in the order of the log
RECURSIVE GlobalTrace(_, _)
GlobalTrace(log, names) ==
    IF log = <<>> THEN <<>>
    ELSE LET e == Head(log)
             rest == GlobalTrace(Tail(log), names)
         IN  IF e.ev = "service"
                \/ (e.ev \in {"on_request", "on_response"} /\ e.who \in names)
             THEN <<(<<e.ev, e.who>>)>> \o rest
             ELSE rest

Carried(bucket) ==
    [k \in 1..Len(bucket) |-> <<bucket[k].origin, bucket[k].middlewares>>]

\* the routes registered on the groups, group after group, each with the
\* whole middleware list of the group it was registered on
RECURSIVE GroupCarried(_, _)
GroupCarried(groups, m) ==
    IF groups = <<>> THEN <<>>
    ELSE LET g == Head(groups)
             b == Bucket(g.routes, m)
         IN  [k \in 1..Len(b) |-> <<b[k].origin, g.middlewares>>]
             \o GroupCarried(Tail(groups), m)

\* a call of groups appends the routes of each group with that group's list
\* and leaves the routes already in the table as they are; a route
\* registered directly is appended with no middleware
MergeCarriesGroupMiddleware ==
    \A m \in Methods :
        LET old == Bucket(routes, m)
            new == Bucket(routes', m)
            added == SubSeq(new, Len(old) + 1, Len(new))
        IN  /\ IsPrefix(old, new)
            /\ IF merged' # merged
               THEN Carried(added) = GroupCarried(merged'[Len(merged')], m)
               ELSE \A k \in 1..Len(added) : added[k].middlewares = <<>>

\* the hooks run around a route of the Router are the list the route carries
CarriedHooksRun ==
    (Looked /\ req.entry = "Router" /\ FireReturnedOk) =>
        HookTrace(req.log) = Canonical(CurrentRoute.middlewares)

\* C12: after Router::groups merged a group, every route registered on it
\* carries exactly that group's middleware list in registration order,
\* also the middlewares attached after the route was added; routes of other
\* groups and routes registered directly do not receive it; and the hooks
\* of the carried list run around the dispatch of the route.
C12_GroupMiddlewareCopiedAtMerge ==
    /\ []CarriedHooksRun
    /\ [][MergeCarriesGroupMiddleware]_vars

\* a route of the group with M1 and M2 was served with both hooks around it,
\* next to a route of the other group and a route registered directly
C12_Witness ==
    /\ Looked /\ req.entry = "Router" /\ FireReturnedOk
    /\ CurrentRoute.middlewares = <<"M1", "M2">>
    /\ Len(HookTrace(req.log)) = 5
    /\ \E m \in DOMAIN routes : \E k \in 1..Len(routes[m]) :
           routes[m][k].middlewares = <<"M3">>
    /\ \E m \in DOMAIN routes : \E k \in 1..Len(routes[m]) :
           routes[m][k].middlewares = <<>>

\* ------------------------------------------------------------------ C13
\* the route is the one the registration b on its group produced
IsRouteOf(r, b) ==
    /\ r.origin = b.prefix \o b.path
    /\ r.service = b.handler
    /\ r.middlewares = b.group.middlewares

\* the groups merged into the table so far
MergedGroups == UNION {Range(merged[k]) : k \in 1..Len(merged)}

RECURSIVE Innermost(_)
Innermost(v) ==
    IF v.type = "result" /\ v.ok THEN Innermost(v.inner) ELSE v

\* C14: unit renders as the default response (200, empty body), a string
\* or string slice as 200 with the value as body, a built response as
\* itself, a successful Result as its inner value, and a failed Result as
\* 500 with the display text of the error as body.
C14_Renderings ==
    rendered.done =>
        LET v == Innermost(returned)
            r == rendered.response
        IN  /\ rendered.ok
            /\ v.type = "unit" => (r.status = 200 /\ r.body = "empty")
            /\ v.type \in {"str", "String"}
                  => (r.status = 200 /\ r.body = v.value)
            /\ v.type = "response" => r = v.response
            /\ v.type = "result" => (r.status = 500 /\ r.body = v.error)

\* a Result whose success holds a failed Result was rendered
C14_Witness ==
    /\ rendered.done
    /\ returned.type = "result" /\ returned.ok
    /\ returned.inner.type = "result" /\ ~returned.inner.ok
    /\ rendered.response = [status |-> 500, body |-> "boom"]

\* ------------------------------------------------------------------ C15
\* C15: in every entry point a request whose URL is path?query is
\* dispatched to a route exactly when the path alone matches the pattern of
\* the route: the selected route fires on the path component, and the
\* lookup finds no route only if no route of the bucket fires on it.
C15_MatchingUsesPathOnly ==
    (req.pc # "idle" /\ req.method \in DOMAIN routes) =>
        LET bucket == routes[req.method]
            hits == Matching(bucket, uri_path(req.uri))
        IN  /\ req.route # 0 => req.route \in hits
            /\ req.route = 0 => hits = {}

\* ------------------------------------------------------------------ C16
\* C16: a path that is the pattern of the route followed by one trailing
\* slash fires on the route, and a path that is the pattern followed by a
\* further segment does not.
C16_TrailingSlashMatches ==
    fired.done =>
        /\ (/\ pattern # <<>> /\ pattern[Len(pattern)] # "/"
            /\ path = pattern \o <<"/">>) => fired.value
        /\ (\E c \in PathChars \ {"/"} : path = pattern \o <<"/", c>>)
              => ~fired.value

\* ------------------------------------------------------------------ C17
Extracted == SelectEvents(call.log, {"extract"})

\* C17: within one dispatch the extractors run in the declared left-to-right
\* order of the parameters, all of them before the handler body; every
\* parts extractor runs before the body extractor, which is the last
\* parameter and runs at most once.
C17_ExtractorsRunInDeclaredOrder ==
    call.done =>
        /\ Len(Extracted) <= Len(call.params)
        /\ \A k \in 1..Len(Extracted) :
              /\ Extracted[k].pos = k
              /\ Extracted[k].who = call.params[k]
              /\ call.log[k] = Extracted[k]
              /\ Extracted[k].who = "Json" => k = Len(call.params)
        /\ \A i \in 1..Len(call.log) :
              call.log[i].ev = "body" =>
                  /\ i = Len(call.log)
                  /\ Len(Extracted) = Len(call.params)
        /\ Cardinality({k \in 1..Len(Extracted) : Extracted[k].who = "Json"}) <= 1

\* a handler of arity five, two path parameters and a header between and
\* after them, the body extractor last, was called with all five arguments
C17_Witness ==
    /\ call.done /\ call.outcome = "response"
    /\ call.params = <<"PathParam", "Header", "PathParam", "Header", "Json">>
    /\ Len(call.args) = 5
    /\ call.log[6].ev = "body"

\* ------------------------------------------------------------------ C18
\* every State argument handed to the handler of the request so far is the
\* value the Router was built with
StateObserved ==
    (Looked /\ req.entry = "Router") =>
        \A k \in 1..Len(req.args) :
            CurrentRoute.service.params[k] = "State" => req.args[k] = <<state>>

\* C18: every handler registered on a Router built with with_state(v) that
\* declares a State extractor observes v on every request, alone or next to
\* other extractors, and serving requests never changes the value.
C18_StateIsTheRouterState ==
    /\ []StateObserved
    /\ [][state' = state]_vars

\* the handler with State, a header and a body extractor ran on a Router
\* built with a configuration
C18_Witness ==
    /\ Looked /\ req.entry = "Router" /\ req.pc = "done"
    /\ state = "cfg"
    /\ CurrentRoute.service.params = <<"State", "Header", "Json">>
    /\ req.args = << <<"cfg">>, <<"h">>, <<"j">> >>
    /\ SelectEvents(req.log, {"body"}) # <<>>

\* ------------------------------------------------------------------ C19
\* zero-based index of the k-th placeholder segment of P among the segments
\* of P, the empty segment before a leading '/' not counted
SegmentOffset(P, k) ==
    PlaceholderPositions(P)[k] - (IF starts_with(P, "/") THEN 2 ELSE 1)

\* C19: for a pattern with K placeholders parse_param_segments returns a
\* map with the keys 0..K-1 whose value at key k is the zero-based index,
\* the empty segment before the leading '/' not counted, of the segment
\* that holds the (k+1)-th placeholder from the left.
C19_ParamOrdinalMap ==
    (parsed.status # "unset" /\ GrammarPattern(pattern)) =>
        /\ parsed.status = "ok"
        /\ Len(parsed.map) = Len(PlaceholderPositions(pattern))
        /\ \A k \in 1..Len(parsed.map) :
              parsed.map[k] = SegmentOffset(pattern, k)

\* ------------------------------------------------------------------ C20
RouterDone == req.pc = "done" /\ req.entry = "Router"

\* the lookup or a hook of the request failed
LookupOrHookFailed ==
    \/ req.method \notin DOMAIN routes
    \/ req.route = 0
    \/ req.error = ErrHook

\* C20: when the lookup or the firing of the route fails (no bucket for the
\* method, no matching route, a failing hook) the Service call of the
\* Router returns a response with status 500 whose body is the text of the
\* error, without panicking; it returns the response of the handler only
\* when the lookup and every hook succeeded.
C20_RouterErrorsBecome500 ==
    RouterDone =>
        /\ LookupOrHookFailed =>
              /\ req.error \in {ErrNoRouteForMethod, ErrNoMatchingRoute, ErrHook}
              /\ req.result = [kind |-> "response",
                               response |-> [status |-> 500,
                                             body |-> req.error]]
        /\ (req.result.kind = "response" /\ ~LookupOrHookFailed) =>
              /\ req.route # 0
              /\ HookTrace(req.log) = Canonical(CurrentHooks)
              /\ req.result.response = req.response

\* an on_response hook failed after the handler had produced its response
C20_Witness ==
    /\ RouterDone /\ req.error = ErrHook
    /\ req.response.status = 200
    /\ req.log[Len(req.log)].ev = "on_response"
    /\ req.result.response = [status |-> 500, body |-> ErrHook]

\* ----------------------------------------------------------------- C25
HookFailed == req.error = ErrHook /\ req.pc \in {"return", "done"}

\* C25: when an on_request hook fails the handler is never invoked for the
\* request and no on_response hook runs; when an on_response hook fails the
\* handler has already run exactly once and its response is discarded in
\* favour of the error.
C25_HookFailureAndTheHandler ==
    HookFailed =>
        /\ LastEvent.ev = "on_request" =>
              SelectEvents(req.log, {"service", "extract", "body",
                                     "on_response"}) = <<>>
        /\ LastEvent.ev = "on_response" =>
              /\ Len(SelectEvents(req.log, {"service"})) = 1
              /\ Len(SelectEvents(req.log, {"body"})) = 1
              /\ req.response # NoResponse
              /\ req.pc = "done" =>
                    /\ req.written = NoResponse
                    /\ req.result.response # req.response
                    /\ req.result.kind = "response" =>
                          req.result.response = [status |-> 500,
                                                 body |-> ErrHook]
        /\ LastEvent.ev \in {"on_request", "on_response"}

\* the second on_response hook failed after the handler had answered
C25_Witness ==
    /\ req.pc = "done" /\ req.error = ErrHook
    /\ LastEvent = Event("on_response", "M2", 2)
    /\ Len(SelectEvents(req.log, {"body"})) = 1

\* ----------------------------------------------------------------- C29
ServerDone == req.pc = "done" /\ req.entry = "Server"

\* C29: Server::handle writes response bytes to the connection only when
\* the route lookup and every middleware hook succeeded; when the method
\* has no bucket, no route matches or a hook fails, it returns an error
\* having written nothing to the stream.
C29_ServerWritesOnlyOnSuccess ==
    ServerDone =>
        /\ req.written # NoResponse =>
              /\ req.method \in DOMAIN routes
              /\ req.route # 0
              /\ req.error = ""
              /\ HookTrace(req.log) = Canonical(middlewares)
              /\ req.written = req.response
              /\ req.result.kind = "ok"
        /\ LookupOrHookFailed =>
              /\ req.result.kind = "err"
              /\ req.error \in {ErrNoRouteForMethod, ErrNoMatchingRoute,
                                ErrHook}
              /\ req.written = NoResponse

\* an on_response hook of the Server failed after the handler had
\* produced a response: nothing reached the stream
C29_Witness ==
    /\ ServerDone /\ req.error = ErrHook
    /\ req.response # NoResponse
    /\ LastEvent.ev = "on_response"
    /\ req.written = NoResponse

\* ----------------------------------------------------------------- C26
\* zero-based indices, the empty segment before a leading '/' not counted,
\* of the pattern segments that should_fire_on_path treats as placeholders
PlaceholderOffsets(P) ==
    {PlaceholderPositions(P)[k] - (IF starts_with(P, "/") THEN 2 ELSE 1) :
        k \in 1..Len(PlaceholderPositions(P))}

\* C26: for every pattern accepted by Route::new the number of entries of
\* its map equals the number of pattern segments that should_fire_on_path
\* treats as placeholders (they start with '<' and end with '>'), and each
\* value of the map is the index of such a segment.
C26_RegistrationAndMatchingAgree ==
    parsed.status = "ok" =>
        /\ Len(parsed.map) = Len(PlaceholderPositions(pattern))
        /\ \A k \in 1..Len(parsed.map) :
              parsed.map[k] \in PlaceholderOffsets(pattern)

\* ----------------------------------------------------------------- C27
\* C27: for every pattern accepted at registration the segment offsets of
\* its map are strictly increasing in the ordinal, so no two placeholders
\* map to the same path segment.
C27_OffsetsStrictlyIncreasing ==
    parsed.status = "ok" =>
        \A k \in 1..Len(parsed.map) - 1 : parsed.map[k] < parsed.map[k + 1]

\* ----------------------------------------------------------------- C28
\* positions of the '>' characters of P, from the left
ClosePositions(P) == Ascending({i \in 1..Len(P) : P[i] = ">"})

\* number of '/' among the first i characters of P
SlashesBefore(P, i) == Cardinality({j \in 1..i : P[j] = "/"})

\* C28: parse_param_segments computes every placeholder offset as the
\* number of '/' seen so far minus one, without arithmetic underflow or
\* overflow of its unsigned counter, for every pattern string, a pattern
\* whose placeholder stands before the first '/' included.
C28_OffsetsWithoutUnderflow ==
    parsed.status # "unset" =>
        /\ parsed.status # "panic"
        /\ parsed.status = "ok" =>
              /\ Len(parsed.map) = Len(ClosePositions(pattern))
              /\ \A k \in 1..Len(parsed.map) :
                    /\ parsed.map[k] =
                          SlashesBefore(pattern, ClosePositions(pattern)[k]) - 1
                    /\ parsed.map[k] \in 0..Len(pattern)

\* ----------------------------------------------------------------- C30
\* the segments of a path after its leading '/'
UrlSegments(p) == Tail(split(p))

\* C30: the metadata built from a URL maps each segment index i (0-based,
\* after the leading '/') to the i-th path segment, for every path,
\* repeated segment values included, so that query(name) returns the path
\* segment at the offset of the placeholder <name> of the injected map.
C30_MetadataMapsIndexToSegment ==
    (parsed.status = "ok" /\ starts_with(path, "/")) =>
        /\ DOMAIN parsed.map = 0..Len(UrlSegments(path)) - 1
        /\ \A i \in DOMAIN parsed.map :
              parsed.map[i] = UrlSegments(path)[i + 1]
        /\ \A n \in DOMAIN parsed.params_segments :
              parsed.params_segments[n] < Len(UrlSegments(path)) =>
                  parsed.query[n] =
                      [ok |-> TRUE,
                       value |-> UrlSegments(path)[parsed.params_segments[n] + 1]]

\* ----------------------------------------------------------------- C21
\* the thread selected a route and its entry point put the map of the
\* route into the extensions of the request
Dispatching(t) ==
    /\ threads[t].route # 0
    /\ threads[t].entry \in {"Router", "Client"}

\* number of path-parameter extractors among the first n parameters
PathParamsAmong(params, n) ==
    Cardinality({j \in 1..n : params[j] = "PathParam"})

\* C21: the map the extractors of a dispatch see is the map of the route
\* selected for that request, and the position of the next path parameter
\* starts at 0 for every request and is advanced by the extractors of that
\* request only: with several requests in flight, on the same or on
\* different routes, every extractor sees as next ordinal the number of
\* path parameters its own request has extracted before it.
C21_MapAndCursorAreRequestLocal ==
    \A t \in DOMAIN threads :
        Dispatching(t) =>
            /\ threads[t].ext = [present |-> TRUE,
                                 map |-> ThreadRoute(t).param_segments]
            /\ \A j \in 1..Len(threads[t].seen) :
                  threads[t].seen[j].ordinal =
                      PathParamsAmong(ThreadRoute(t).service.params, j - 1)
            /\ threads[t].pc \in {"extract", "body"} =>
                  threads[t].cursor =
                      PathParamsAmong(ThreadRoute(t).service.params,
                                      Len(threads[t].args))

\* two requests in flight on different routes, one has extracted two path
\* parameters and the other one
C21_Witness ==
    /\ Dispatching(1) /\ Dispatching(2)
    /\ threads[1].route # threads[2].route
    /\ threads[1].pc = "extract" /\ threads[1].cursor = 2
    /\ threads[2].pc = "body" /\ threads[2].cursor = 1

\* ----------------------------------------------------------------- C22
\* C22: serving never mutates shared data: in every step of every
\* interleaving of requests, successful or failing, the route table (its
\* buckets and their order, every route's pattern, map and middleware
\* list), the global middleware list and the shared state stay as they
\* were.
C22_ServingMutatesNothingShared ==
    [][/\ routes' = routes
       /\ middlewares' = middlewares
       /\ state' = state]_vars

\* a request that failed in a hook and a request that was answered have
\* both been served from the table
C22_Witness ==
    /\ threads[1].pc = "done" /\ threads[1].error = ErrHook
    /\ threads[2].pc = "done" /\ threads[2].error = ""
    /\ threads[2].result.kind = "response"
    /\ threads[2].result.response.status = 200
    /\ routes = RouterApp.routes

\* ----------------------------------------------------------------- C23
\* the thread's request served alone, with what the thread met
Alone(t) ==
    ServedAlone(threads[t].entry, threads[t].method, threads[t].uri,
                threads[t].input, threads[t].failed)

\* C23: errors are per-request: in every interleaving of the connection
\* threads, whatever became of the other requests (routing error, hook
\* failure, extraction failure), a request ends with the outcome it would
\* get if served alone, and the server keeps accepting connections.
C23_ErrorsArePerRequest ==
    /\ listening
    /\ \A t \in DOMAIN threads :
          threads[t].pc = "done" =>
              /\ threads[t].result = Alone(t).back.result
              /\ threads[t].written = Alone(t).back.written
              /\ threads[t].log = Alone(t).log
              /\ threads[t].args = Alone(t).args

\* on the Server one thread panicked in an extractor, the other request
\* was answered
C23_Witness ==
    /\ threads[1].pc = "done" /\ threads[1].entry = "Server"
    /\ threads[1].result.kind = "panic"
    /\ threads[2].pc = "done" /\ threads[2].entry = "Server"
    /\ threads[2].result.kind = "ok"
    /\ threads[2].written.status = 200
    /\ listening

\* ----------------------------------------------------------------- C24
\* C24: when the body extractor, declared last, runs, the body of the
\* request is still intact, whatever number (0 to 4) of parts extractors
\* ran before it: the parts extractors are given the metadata only, the
\* last extractor the request put together from the metadata and the body.
C24_BodyIntactForTheLastExtractor ==
    \A t \in DOMAIN threads :
        \A j \in 1..Len(threads[t].seen) :
            LET params == ThreadRoute(t).service.params
                s == threads[t].seen[j]
            IN  /\ j < Len(params) =>
                      s.given = "parts" /\ s.body = "absent"
                /\ j = Len(params) =>
                      s.given = "request" /\ s.body = "intact"

\* four parts extractors ran, then the body extractor read the body
C24_Witness ==
    /\ Len(threads[1].seen) = MAX_ARITY
    /\ threads[1].seen[MAX_ARITY].kind = "Json"
    /\ threads[1].seen[MAX_ARITY].body = "intact"
    /\ threads[1].body = "consumed"
    /\ threads[1].pc = "done" /\ threads[1].result.response.status = 200

====
